---------------------------- MODULE Spec2Model ----------------------------
(***************************************************************************)
(* Model of src/main.py: the Jenkins log analyzer.                         *)
(*                                                                         *)
(* Text is a sequence of characters.  A character is a string: an ASCII    *)
(* character is the one-character string, any other character is written   *)
(* "U+XXXX" after its code point.  None is Python's None.                  *)
(***************************************************************************)
EXTENDS Integers, Sequences, FiniteSets, TLC

VARIABLES
    env,             \* os.environ: which settings are present
    pc,              \* position of main()
    limit,           \* the limit get_failed_builds was called with
    job_resp,        \* the server's answer to the job request
    build_resp,      \* the server's answer to the request for each listed build
    failed_builds,   \* the list get_failed_builds returned
    idx,             \* position of main's for loop in failed_builds (1-based)
    response,        \* the server's answer to the last consoleText request
    log,             \* main's local: the excerpt get_log returned
    basic_findings,  \* main's local: what basic_analysis returned
    ai_analysis,     \* main's local: what analyze returned
    stdout,          \* what main printed, in order
    calls            \* every request and pipeline stage so far, in order

vars == <<env, pc, limit, job_resp, build_resp, failed_builds, idx, response,
          log, basic_findings, ai_analysis, stdout, calls>>

(***************************************************************************)
(* Sequence helpers (Python list / str operations).                        *)
(***************************************************************************)
Min(S) == CHOOSE x \in S : \A y \in S : x <= y
Max(S) == CHOOSE x \in S : \A y \in S : x >= y

Range(s) == {s[i] : i \in DOMAIN s}

\* s[:n] of Python: the first n items for n >= 0, all but the last -n for n < 0
Slice(s, n) ==
    IF n >= 0 THEN SubSeq(s, 1, Min({n, Len(s)}))
    ELSE SubSeq(s, 1, Max({Len(s) + n, 0}))

(***************************************************************************)
(* re.findall(pattern, log, re.IGNORECASE) for the patterns of lines 70-77 *)
(* A pattern is a sequence of alternatives, an alternative is a sequence   *)
(* of elements: a literal character, ".*", "\d+" or an optional character. *)
(***************************************************************************)
Upper == <<"A", "B", "C", "D", "E", "F", "G", "H", "I", "J", "K", "L", "M",
           "N", "O", "P", "Q", "R", "S", "T", "U", "V", "W", "X", "Y", "Z">>
Lower == <<"a", "b", "c", "d", "e", "f", "g", "h", "i", "j", "k", "l", "m",
           "n", "o", "p", "q", "r", "s", "t", "u", "v", "w", "x", "y", "z">>
\* \d in a str pattern: every Unicode decimal digit (category Nd), the ASCII
\* digits first, then each script's 0..9
Digits ==
    {"0", "1", "2", "3", "4", "5", "6", "7", "8", "9",
     "U+0660", "U+0661", "U+0662", "U+0663", "U+0664", "U+0665", "U+0666", "U+0667", "U+0668", "U+0669",
     "U+06F0", "U+06F1", "U+06F2", "U+06F3", "U+06F4", "U+06F5", "U+06F6", "U+06F7", "U+06F8", "U+06F9",
     "U+07C0", "U+07C1", "U+07C2", "U+07C3", "U+07C4", "U+07C5", "U+07C6", "U+07C7", "U+07C8", "U+07C9",
     "U+0966", "U+0967", "U+0968", "U+0969", "U+096A", "U+096B", "U+096C", "U+096D", "U+096E", "U+096F",
     "U+09E6", "U+09E7", "U+09E8", "U+09E9", "U+09EA", "U+09EB", "U+09EC", "U+09ED", "U+09EE", "U+09EF",
     "U+0A66", "U+0A67", "U+0A68", "U+0A69", "U+0A6A", "U+0A6B", "U+0A6C", "U+0A6D", "U+0A6E", "U+0A6F",
     "U+0AE6", "U+0AE7", "U+0AE8", "U+0AE9", "U+0AEA", "U+0AEB", "U+0AEC", "U+0AED", "U+0AEE", "U+0AEF",
     "U+0B66", "U+0B67", "U+0B68", "U+0B69", "U+0B6A", "U+0B6B", "U+0B6C", "U+0B6D", "U+0B6E", "U+0B6F",
     "U+0BE6", "U+0BE7", "U+0BE8", "U+0BE9", "U+0BEA", "U+0BEB", "U+0BEC", "U+0BED", "U+0BEE", "U+0BEF",
     "U+0C66", "U+0C67", "U+0C68", "U+0C69", "U+0C6A", "U+0C6B", "U+0C6C", "U+0C6D", "U+0C6E", "U+0C6F",
     "U+0CE6", "U+0CE7", "U+0CE8", "U+0CE9", "U+0CEA", "U+0CEB", "U+0CEC", "U+0CED", "U+0CEE", "U+0CEF",
     "U+0D66", "U+0D67", "U+0D68", "U+0D69", "U+0D6A", "U+0D6B", "U+0D6C", "U+0D6D", "U+0D6E", "U+0D6F",
     "U+0DE6", "U+0DE7", "U+0DE8", "U+0DE9", "U+0DEA", "U+0DEB", "U+0DEC", "U+0DED", "U+0DEE", "U+0DEF",
     "U+0E50", "U+0E51", "U+0E52", "U+0E53", "U+0E54", "U+0E55", "U+0E56", "U+0E57", "U+0E58", "U+0E59",
     "U+0ED0", "U+0ED1", "U+0ED2", "U+0ED3", "U+0ED4", "U+0ED5", "U+0ED6", "U+0ED7", "U+0ED8", "U+0ED9",
     "U+0F20", "U+0F21", "U+0F22", "U+0F23", "U+0F24", "U+0F25", "U+0F26", "U+0F27", "U+0F28", "U+0F29",
     "U+1040", "U+1041", "U+1042", "U+1043", "U+1044", "U+1045", "U+1046", "U+1047", "U+1048", "U+1049",
     "U+1090", "U+1091", "U+1092", "U+1093", "U+1094", "U+1095", "U+1096", "U+1097", "U+1098", "U+1099",
     "U+17E0", "U+17E1", "U+17E2", "U+17E3", "U+17E4", "U+17E5", "U+17E6", "U+17E7", "U+17E8", "U+17E9",
     "U+1810", "U+1811", "U+1812", "U+1813", "U+1814", "U+1815", "U+1816", "U+1817", "U+1818", "U+1819",
     "U+1946", "U+1947", "U+1948", "U+1949", "U+194A", "U+194B", "U+194C", "U+194D", "U+194E", "U+194F",
     "U+19D0", "U+19D1", "U+19D2", "U+19D3", "U+19D4", "U+19D5", "U+19D6", "U+19D7", "U+19D8", "U+19D9",
     "U+1A80", "U+1A81", "U+1A82", "U+1A83", "U+1A84", "U+1A85", "U+1A86", "U+1A87", "U+1A88", "U+1A89",
     "U+1A90", "U+1A91", "U+1A92", "U+1A93", "U+1A94", "U+1A95", "U+1A96", "U+1A97", "U+1A98", "U+1A99",
     "U+1B50", "U+1B51", "U+1B52", "U+1B53", "U+1B54", "U+1B55", "U+1B56", "U+1B57", "U+1B58", "U+1B59",
     "U+1BB0", "U+1BB1", "U+1BB2", "U+1BB3", "U+1BB4", "U+1BB5", "U+1BB6", "U+1BB7", "U+1BB8", "U+1BB9",
     "U+1C40", "U+1C41", "U+1C42", "U+1C43", "U+1C44", "U+1C45", "U+1C46", "U+1C47", "U+1C48", "U+1C49",
     "U+1C50", "U+1C51", "U+1C52", "U+1C53", "U+1C54", "U+1C55", "U+1C56", "U+1C57", "U+1C58", "U+1C59",
     "U+A620", "U+A621", "U+A622", "U+A623", "U+A624", "U+A625", "U+A626", "U+A627", "U+A628", "U+A629",
     "U+A8D0", "U+A8D1", "U+A8D2", "U+A8D3", "U+A8D4", "U+A8D5", "U+A8D6", "U+A8D7", "U+A8D8", "U+A8D9",
     "U+A900", "U+A901", "U+A902", "U+A903", "U+A904", "U+A905", "U+A906", "U+A907", "U+A908", "U+A909",
     "U+A9D0", "U+A9D1", "U+A9D2", "U+A9D3", "U+A9D4", "U+A9D5", "U+A9D6", "U+A9D7", "U+A9D8", "U+A9D9",
     "U+A9F0", "U+A9F1", "U+A9F2", "U+A9F3", "U+A9F4", "U+A9F5", "U+A9F6", "U+A9F7", "U+A9F8", "U+A9F9",
     "U+AA50", "U+AA51", "U+AA52", "U+AA53", "U+AA54", "U+AA55", "U+AA56", "U+AA57", "U+AA58", "U+AA59",
     "U+ABF0", "U+ABF1", "U+ABF2", "U+ABF3", "U+ABF4", "U+ABF5", "U+ABF6", "U+ABF7", "U+ABF8", "U+ABF9",
     "U+FF10", "U+FF11", "U+FF12", "U+FF13", "U+FF14", "U+FF15", "U+FF16", "U+FF17", "U+FF18", "U+FF19",
     "U+104A0", "U+104A1", "U+104A2", "U+104A3", "U+104A4", "U+104A5", "U+104A6", "U+104A7", "U+104A8", "U+104A9",
     "U+10D30", "U+10D31", "U+10D32", "U+10D33", "U+10D34", "U+10D35", "U+10D36", "U+10D37", "U+10D38", "U+10D39",
     "U+11066", "U+11067", "U+11068", "U+11069", "U+1106A", "U+1106B", "U+1106C", "U+1106D", "U+1106E", "U+1106F",
     "U+110F0", "U+110F1", "U+110F2", "U+110F3", "U+110F4", "U+110F5", "U+110F6", "U+110F7", "U+110F8", "U+110F9",
     "U+11136", "U+11137", "U+11138", "U+11139", "U+1113A", "U+1113B", "U+1113C", "U+1113D", "U+1113E", "U+1113F",
     "U+111D0", "U+111D1", "U+111D2", "U+111D3", "U+111D4", "U+111D5", "U+111D6", "U+111D7", "U+111D8", "U+111D9",
     "U+112F0", "U+112F1", "U+112F2", "U+112F3", "U+112F4", "U+112F5", "U+112F6", "U+112F7", "U+112F8", "U+112F9",
     "U+11450", "U+11451", "U+11452", "U+11453", "U+11454", "U+11455", "U+11456", "U+11457", "U+11458", "U+11459",
     "U+114D0", "U+114D1", "U+114D2", "U+114D3", "U+114D4", "U+114D5", "U+114D6", "U+114D7", "U+114D8", "U+114D9",
     "U+11650", "U+11651", "U+11652", "U+11653", "U+11654", "U+11655", "U+11656", "U+11657", "U+11658", "U+11659",
     "U+116C0", "U+116C1", "U+116C2", "U+116C3", "U+116C4", "U+116C5", "U+116C6", "U+116C7", "U+116C8", "U+116C9",
     "U+11730", "U+11731", "U+11732", "U+11733", "U+11734", "U+11735", "U+11736", "U+11737", "U+11738", "U+11739",
     "U+118E0", "U+118E1", "U+118E2", "U+118E3", "U+118E4", "U+118E5", "U+118E6", "U+118E7", "U+118E8", "U+118E9",
     "U+11950", "U+11951", "U+11952", "U+11953", "U+11954", "U+11955", "U+11956", "U+11957", "U+11958", "U+11959",
     "U+11C50", "U+11C51", "U+11C52", "U+11C53", "U+11C54", "U+11C55", "U+11C56", "U+11C57", "U+11C58", "U+11C59",
     "U+11D50", "U+11D51", "U+11D52", "U+11D53", "U+11D54", "U+11D55", "U+11D56", "U+11D57", "U+11D58", "U+11D59",
     "U+11DA0", "U+11DA1", "U+11DA2", "U+11DA3", "U+11DA4", "U+11DA5", "U+11DA6", "U+11DA7", "U+11DA8", "U+11DA9",
     "U+16A60", "U+16A61", "U+16A62", "U+16A63", "U+16A64", "U+16A65", "U+16A66", "U+16A67", "U+16A68", "U+16A69",
     "U+16AC0", "U+16AC1", "U+16AC2", "U+16AC3", "U+16AC4", "U+16AC5", "U+16AC6", "U+16AC7", "U+16AC8", "U+16AC9",
     "U+16B50", "U+16B51", "U+16B52", "U+16B53", "U+16B54", "U+16B55", "U+16B56", "U+16B57", "U+16B58", "U+16B59",
     "U+1D7CE", "U+1D7CF", "U+1D7D0", "U+1D7D1", "U+1D7D2", "U+1D7D3", "U+1D7D4", "U+1D7D5", "U+1D7D6", "U+1D7D7",
     "U+1D7D8", "U+1D7D9", "U+1D7DA", "U+1D7DB", "U+1D7DC", "U+1D7DD", "U+1D7DE", "U+1D7DF", "U+1D7E0", "U+1D7E1",
     "U+1D7E2", "U+1D7E3", "U+1D7E4", "U+1D7E5", "U+1D7E6", "U+1D7E7", "U+1D7E8", "U+1D7E9", "U+1D7EA", "U+1D7EB",
     "U+1D7EC", "U+1D7ED", "U+1D7EE", "U+1D7EF", "U+1D7F0", "U+1D7F1", "U+1D7F2", "U+1D7F3", "U+1D7F4", "U+1D7F5",
     "U+1D7F6", "U+1D7F7", "U+1D7F8", "U+1D7F9", "U+1D7FA", "U+1D7FB", "U+1D7FC", "U+1D7FD", "U+1D7FE", "U+1D7FF",
     "U+1E140", "U+1E141", "U+1E142", "U+1E143", "U+1E144", "U+1E145", "U+1E146", "U+1E147", "U+1E148", "U+1E149",
     "U+1E2F0", "U+1E2F1", "U+1E2F2", "U+1E2F3", "U+1E2F4", "U+1E2F5", "U+1E2F6", "U+1E2F7", "U+1E2F8", "U+1E2F9",
     "U+1E950", "U+1E951", "U+1E952", "U+1E953", "U+1E954", "U+1E955", "U+1E956", "U+1E957", "U+1E958", "U+1E959",
     "U+1FBF0", "U+1FBF1", "U+1FBF2", "U+1FBF3", "U+1FBF4", "U+1FBF5", "U+1FBF6", "U+1FBF7", "U+1FBF8", "U+1FBF9"}

\* re.IGNORECASE on str patterns: the ASCII letters, and the four other
\* letters that match one of them ("U+0130", "U+0131": i, "U+017F": s,
\* "U+212A": k)
FoldTable ==
    [k \in DOMAIN Upper |-> Upper[k] :> Lower[k]]
CaseFold ==
    LET RECURSIVE Merge(_)
        Merge(k) == IF k = 0 THEN ("U+0130" :> "i") @@ ("U+0131" :> "i")
                                  @@ ("U+017F" :> "s") @@ ("U+212A" :> "k")
                    ELSE FoldTable[k] @@ Merge(k - 1)
    IN  Merge(Len(Upper))
Fold(c) == IF c \in DOMAIN CaseFold THEN CaseFold[c] ELSE c

Lit(s) == [k \in 1..Len(s) |-> [t |-> "lit", c |-> s[k]]]
DotStar == <<[t |-> "dotstar", c |-> ""]>>
DigitPlus == <<[t |-> "digitplus", c |-> ""]>>
Opt(ch) == <<[t |-> "opt", c |-> ch]>>

NoMatch == -1

\* the first position at or after pos holding a newline, Len(text)+1 if none:
\* "." matches anything but a newline
LineEnd(text, pos) ==
    Min({j \in pos..Len(text) : text[j] = "\n"} \cup {Len(text) + 1})

\* the first position at or after pos not holding a digit
DigitsEnd(text, pos) ==
    Min({j \in pos..Len(text) : text[j] \notin Digits} \cup {Len(text) + 1})

\* Backtracking match of elems[k..] against text from pos: the position after
\* the match the engine settles on (greedy, longest first), or NoMatch.
RECURSIVE MatchFrom(_, _, _, _)
MatchFrom(elems, k, text, pos) ==
    IF k > Len(elems) THEN pos
    ELSE LET e == elems[k] IN
      CASE e.t = "lit" ->
             IF pos <= Len(text) /\ Fold(text[pos]) = Fold(e.c)
             THEN MatchFrom(elems, k + 1, text, pos + 1)
             ELSE NoMatch
        [] e.t = "dotstar" ->
             LET ok == {j \in pos..LineEnd(text, pos) :
                          MatchFrom(elems, k + 1, text, j) # NoMatch}
             IN  IF ok = {} THEN NoMatch
                 ELSE MatchFrom(elems, k + 1, text, Max(ok))
        [] e.t = "digitplus" ->
             LET ok == {j \in (pos + 1)..DigitsEnd(text, pos) :
                          MatchFrom(elems, k + 1, text, j) # NoMatch}
             IN  IF ok = {} THEN NoMatch
                 ELSE MatchFrom(elems, k + 1, text, Max(ok))
        [] e.t = "opt" ->
             LET with == IF pos <= Len(text) /\ Fold(text[pos]) = Fold(e.c)
                         THEN MatchFrom(elems, k + 1, text, pos + 1)
                         ELSE NoMatch
             IN  IF with # NoMatch THEN with
                 ELSE MatchFrom(elems, k + 1, text, pos)

\* a|b|c at pos: the first alternative, in order, that matches there
MatchAt(pattern, text, pos) ==
    LET hits == {a \in DOMAIN pattern :
                   MatchFrom(pattern[a], 1, text, pos) # NoMatch}
    IN  IF hits = {} THEN NoMatch
        ELSE MatchFrom(pattern[Min(hits)], 1, text, pos)

\* re.findall: the non-overlapping matches, scanning left to right
RECURSIVE FindAllFrom(_, _, _, _)
FindAllFrom(pattern, text, starts, pos) ==
    LET S == {p \in starts : p >= pos} IN
    IF S = {} THEN <<>>
    ELSE LET p == Min(S)
             e == MatchAt(pattern, text, p)
         IN  <<SubSeq(text, p, e - 1)>> \o FindAllFrom(pattern, text, starts, e)

FindAll(pattern, text) ==
    FindAllFrom(pattern, text,
                {p \in 1..Len(text) : MatchAt(pattern, text, p) # NoMatch}, 1)

(***************************************************************************)
(* JenkinsLogAnalyzer.basic_analysis, lines 67-89                          *)
(***************************************************************************)
\* line 70: "\u7F16\u8BD1\u9519\u8BEF": r"error: .*|FAILED to compile|\u7F16\u8BD1\u5931\u8D25"
CatCompileError ==
    <<"U+7F16", "U+8BD1", "U+9519", "U+8BEF">>
PatCompileError ==
    << Lit(<<"e", "r", "r", "o", "r", ":", " ">>) \o DotStar,
       Lit(<<"F", "A", "I", "L", "E", "D", " ", "t", "o", " ", "c", "o", "m", "p", "i", "l", "e">>),
       Lit(<<"U+7F16", "U+8BD1", "U+5931", "U+8D25">>) >>
\* line 71: "\u6D4B\u8BD5\u5931\u8D25": r"FAILED \d+ tests?|\u6D4B\u8BD5\u7528\u4F8B.*\u5931\u8D25"
CatTestFailure ==
    <<"U+6D4B", "U+8BD5", "U+5931", "U+8D25">>
PatTestFailure ==
    << Lit(<<"F", "A", "I", "L", "E", "D", " ">>) \o DigitPlus \o Lit(<<" ", "t", "e", "s", "t">>) \o Opt("s"),
       Lit(<<"U+6D4B", "U+8BD5", "U+7528", "U+4F8B">>) \o DotStar \o Lit(<<"U+5931", "U+8D25">>) >>
\* line 72: "\u4F9D\u8D56\u95EE\u9898": r"Unable to resolve dependency|404 Not Found|\u65E0\u6CD5\u4E0B\u8F7D\u4F9D\u8D56"
CatDependencyProblem ==
    <<"U+4F9D", "U+8D56", "U+95EE", "U+9898">>
PatDependencyProblem ==
    << Lit(<<"U", "n", "a", "b", "l", "e", " ", "t", "o", " ", "r", "e", "s", "o", "l", "v", "e", " ", "d", "e", "p", "e", "n", "d", "e", "n", "c", "y">>),
       Lit(<<"4", "0", "4", " ", "N", "o", "t", " ", "F", "o", "u", "n", "d">>),
       Lit(<<"U+65E0", "U+6CD5", "U+4E0B", "U+8F7D", "U+4F9D", "U+8D56">>) >>
\* line 73: "\u8D85\u65F6": r"Timeout.*exceeded|\u6267\u884C\u8D85\u65F6"
CatTimeout ==
    <<"U+8D85", "U+65F6">>
PatTimeout ==
    << Lit(<<"T", "i", "m", "e", "o", "u", "t">>) \o DotStar \o Lit(<<"e", "x", "c", "e", "e", "d", "e", "d">>),
       Lit(<<"U+6267", "U+884C", "U+8D85", "U+65F6">>) >>
\* line 74: "\u6743\u9650\u95EE\u9898": r"Permission denied|\u6743\u9650\u88AB\u62D2\u7EDD"
CatPermissionProblem ==
    <<"U+6743", "U+9650", "U+95EE", "U+9898">>
PatPermissionProblem ==
    << Lit(<<"P", "e", "r", "m", "i", "s", "s", "i", "o", "n", " ", "d", "e", "n", "i", "e", "d">>),
       Lit(<<"U+6743", "U+9650", "U+88AB", "U+62D2", "U+7EDD">>) >>
\* line 75: "\u78C1\u76D8\u7A7A\u95F4": r"No space left on device|\u78C1\u76D8\u7A7A\u95F4\u4E0D\u8DB3"
CatDiskSpace ==
    <<"U+78C1", "U+76D8", "U+7A7A", "U+95F4">>
PatDiskSpace ==
    << Lit(<<"N", "o", " ", "s", "p", "a", "c", "e", " ", "l", "e", "f", "t", " ", "o", "n", " ", "d", "e", "v", "i", "c", "e">>),
       Lit(<<"U+78C1", "U+76D8", "U+7A7A", "U+95F4", "U+4E0D", "U+8DB3">>) >>
\* line 76: "\u5185\u5B58\u4E0D\u8DB3": r"OutOfMemoryError|\u5185\u5B58\u6EA2\u51FA"
CatOutOfMemory ==
    <<"U+5185", "U+5B58", "U+4E0D", "U+8DB3">>
PatOutOfMemory ==
    << Lit(<<"O", "u", "t", "O", "f", "M", "e", "m", "o", "r", "y", "E", "r", "r", "o", "r">>),
       Lit(<<"U+5185", "U+5B58", "U+6EA2", "U+51FA">>) >>
\* line 77: "\u7F51\u7EDC\u95EE\u9898": r"Connection refused|\u8FDE\u63A5\u8D85\u65F6|\u65E0\u6CD5\u8FDE\u63A5\u5230"
CatNetworkProblem ==
    <<"U+7F51", "U+7EDC", "U+95EE", "U+9898">>
PatNetworkProblem ==
    << Lit(<<"C", "o", "n", "n", "e", "c", "t", "i", "o", "n", " ", "r", "e", "f", "u", "s", "e", "d">>),
       Lit(<<"U+8FDE", "U+63A5", "U+8D85", "U+65F6">>),
       Lit(<<"U+65E0", "U+6CD5", "U+8FDE", "U+63A5", "U+5230">>) >>

\* lines 69-78: the table, in dict order
error_patterns ==
    << [category |-> CatCompileError,      pattern |-> PatCompileError],
       [category |-> CatTestFailure,       pattern |-> PatTestFailure],
       [category |-> CatDependencyProblem, pattern |-> PatDependencyProblem],
       [category |-> CatTimeout,           pattern |-> PatTimeout],
       [category |-> CatPermissionProblem, pattern |-> PatPermissionProblem],
       [category |-> CatDiskSpace,         pattern |-> PatDiskSpace],
       [category |-> CatOutOfMemory,       pattern |-> PatOutOfMemory],
       [category |-> CatNetworkProblem,    pattern |-> PatNetworkProblem] >>

\* line 86: the sample cap
MaxSamples == 3

\* the lists of n pairwise different members of S
InjectiveSeqs(S, n) ==
    {s \in [1..n -> S] : \A a, b \in 1..n : a # b => s[a] # s[b]}

\* a faulty variant of line 86: matches[:3], the duplicates kept
SampleLists_NoDedup(matches) == {Slice(matches, MaxSamples)}

\* line 86, list(set(matches))[:3]: a set iterates in an order the hashes of
\* its members decide, so any order of the distinct matches can come out
SampleLists(matches) ==
    InjectiveSeqs(Range(matches),
                  Min({MaxSamples, Cardinality(Range(matches))}))

\* lines 81-87 for the patterns k..: the findings mappings that can come out,
\* each a sequence of entries in dict (insertion) order
RECURSIVE FindingsFrom(_, _)
FindingsFrom(k, text) ==
    IF k > Len(error_patterns) THEN {<<>>}
    ELSE LET matches == FindAll(error_patterns[k].pattern, text)
             rest == FindingsFrom(k + 1, text)
         IN  IF matches = <<>> THEN rest
             ELSE {<<[category |-> error_patterns[k].category,
                      count |-> Len(matches),
                      samples |-> s]>> \o r :
                     s \in SampleLists(matches), r \in rest}

\* lines 67-89: every findings mapping basic_analysis(log) can return
basic_analysis(text) == FindingsFrom(1, text)

(***************************************************************************)
(* JenkinsLogAnalyzer: construction, fetch_json, get_failed_builds, get_log*)
(***************************************************************************)
\* None where a str is expected (os.getenv, get_log): no character is "None"
NoneText == <<"None">>
\* None where a JSON object is expected (fetch_json)
None == [none |-> TRUE]

\* a faulty variant of lines 98, 176: "is not None" in place of truthiness
Truthy_NotNone(x) == x # NoneText

\* bool(x) for a str or None (lines 98, 176)
Truthy(x) == x # NoneText /\ x # <<>>

EnvNames == {"JENKINS_URL", "JENKINS_USER", "JENKINS_TOKEN", "JOB_NAME",
             "DEEPSEEK_API_KEY"}

\* the value a setting has when it is set
EnvValue(name) ==
    CASE name = "JENKINS_URL"      -> <<"h", "t", "t", "p", ":", "/", "/", "c", "i">>
      [] name = "JENKINS_USER"     -> <<"b", "o", "t">>
      [] name = "JENKINS_TOKEN"    -> <<"t", "0", "k">>
      [] name = "JOB_NAME"         -> <<"a", "p", "p">>
      [] name = "DEEPSEEK_API_KEY" -> <<"s", "k", "-", "1">>

\* lines 18-22: JenkinsLogAnalyzer() raises exactly when None.rstrip is
\* called, that is when JENKINS_URL is unset; the other three are stored as
\* they are
JenkinsInitRaises(e) == e["JENKINS_URL"] = NoneText

\* line 22
max_log_size == 5000

\* lines 92-102: DeepSeekAIAnalyzer() raises ValueError on a missing or
\* empty key
AIInitRaises(e) == ~Truthy(e["DEEPSEEK_API_KEY"])

\* lines 24-32: the parsed body, or None on a RequestException
fetch_json(resp) == IF resp.ok THEN resp.json ELSE None

\* a faulty variant of lines 45-54: a failed detail fetch ends the enumeration
RECURSIVE CollectFailed_StopAtError(_, _)
CollectFailed_StopAtError(cands, buildResp) ==
    IF cands = <<>> THEN <<>>
    ELSE LET build == Head(cands)
             build_info == fetch_json(buildResp[build.number])
         IN  IF build_info = None THEN <<>>
             ELSE (IF build_info.result = "FAILURE"
                   THEN <<[number |-> build.number,
                           url |-> build_info.url,
                           timestamp |-> build_info.timestamp]>>
                   ELSE <<>>)
                  \o CollectFailed_StopAtError(Tail(cands), buildResp)

\* lines 45-54 on the candidates cands: the summaries of those whose detail
\* fetch returned a FAILURE result, in order
RECURSIVE CollectFailed(_, _)
CollectFailed(cands, buildResp) ==
    IF cands = <<>> THEN <<>>
    ELSE LET build == Head(cands)
             build_info == fetch_json(buildResp[build.number])
         IN  (IF build_info # None /\ build_info.result = "FAILURE"
              THEN <<[number |-> build.number,
                      url |-> build_info.url,
                      timestamp |-> build_info.timestamp]>>
              ELSE <<>>)
             \o CollectFailed(Tail(cands), buildResp)

\* a faulty variant of lines 46-54: every listed build is examined and the
\* failed ones are cut to n afterwards
get_failed_builds_FilterFirst(jobResp, buildResp, n) ==
    LET info == fetch_json(jobResp) IN
    IF info = None THEN <<>>
    ELSE Slice(CollectFailed(info.builds, buildResp), n)

\* lines 39-54: jobResp answers the job request, buildResp[n] the request
\* for build n
get_failed_builds(jobResp, buildResp, n) ==
    LET info == fetch_json(jobResp) IN
    IF info = None THEN <<>>
    ELSE CollectFailed(Slice(info.builds, n), buildResp)

\* the per-build requests lines 46-47 issue, in order
Candidates(jobResp, n) ==
    LET info == fetch_json(jobResp) IN
    IF info = None THEN <<>> ELSE Slice(info.builds, n)

\* a faulty variant of line 62: the cap off by one
get_log_OffByOne(resp) ==
    IF resp.ok
    THEN SubSeq(resp.text, 1, Min({max_log_size + 1, Len(resp.text)}))
    ELSE NoneText

\* lines 56-65: the first max_log_size characters, or None on a
\* RequestException
get_log(resp) ==
    IF resp.ok THEN SubSeq(resp.text, 1, Min({max_log_size, Len(resp.text)}))
    ELSE NoneText

(***************************************************************************)
(* DeepSeekAIAnalyzer.analyze and generate_report                          *)
(***************************************************************************)
\* line 132
AIFailMarker ==
    <<"A", "I", "U+5206", "U+6790", "U+5931", "U+8D25", ":", " ">>
\* line 130: str(IndexError) when choices is empty
IndexErrorText ==
    <<"l", "i", "s", "t", " ", "i", "n", "d", "e", "x", " ", "o", "u", "t", " ", "o", "f", " ", "r", "a", "n", "g", "e">>

\* a faulty variant of line 132: the marker without str(e)
analyze_MarkerOnly(log_snippet, outcome) ==
    IF outcome.kind = "completion" THEN outcome.text ELSE AIFailMarker

\* lines 118-132.  outcome is what the chat-completion call does:
\*   "completion": returns a response whose first choice holds text
\*   "exception":  raises, str(e) = text (network, auth, quota)
\*   "no_choices": returns a response without choices, so line 130 raises
analyze(log_snippet, outcome) ==
    CASE outcome.kind = "completion" -> outcome.text
      [] outcome.kind = "exception"  -> AIFailMarker \o outcome.text
      [] outcome.kind = "no_choices" -> AIFailMarker \o IndexErrorText

\* str(n) for an int n >= 0
RECURSIVE DecimalStr(_)
DecimalStr(n) ==
    LET d == <<"0", "1", "2", "3", "4", "5", "6", "7", "8", "9">>
    IN  IF n < 10 THEN <<d[n + 1]>>
        ELSE DecimalStr(n \div 10) \o <<d[(n % 10) + 1]>>

\* line 138: str(None)
NoneRepr ==
    <<"N", "o", "n", "e">>
\* line 137
RptTitle ==
    <<"\n", "U+1F527", " ", "J", "e", "n", "k", "i", "n", "s", "U+6784", "U+5EFA", "U+5206", "U+6790", "U+62A5", "U+544A">>
\* line 138
RptJobName ==
    <<"U+4EFB", "U+52A1", "U+540D", "U+79F0", ":", " ">>
\* line 139
RptNumber ==
    <<"U+6784", "U+5EFA", "U+7F16", "U+53F7", ":", " ", "#">>
\* line 140
RptTime ==
    <<"U+6784", "U+5EFA", "U+65F6", "U+95F4", ":", " ">>
\* line 141
RptUrl ==
    <<"U+6784", "U+5EFA", "U", "R", "L", ":", " ">>
\* line 142
RptBasicHeader ==
    <<"\n", "U+1F4CA", " ", "U+57FA", "U+7840", "U+5206", "U+6790", "U+7ED3", "U+679C", ":">>
\* line 147
RptCategoryPrefix ==
    <<" ", " ", "-", " ">>
\* line 147
RptCountPrefix ==
    <<":", " ", "U+51FA", "U+73B0">>
\* line 147
RptCountSuffix ==
    <<"U+6B21">>
\* line 149
RptSamplePrefix ==
    <<" ", " ", " ", " ", "*", " ">>
\* line 151
RptNoPattern ==
    <<" ", " ", "-", " ", "U+672A", "U+8BC6", "U+522B", "U+5230", "U+5E38", "U+89C1", "U+9519", "U+8BEF", "U+6A21", "U+5F0F">>
\* line 153
RptAIHeader ==
    <<"\n", "U+1F916", " ", "A", "I", "U+6DF1", "U+5EA6", "U+5206", "U+6790", ":">>

\* an f-string field holding a str or None
Fmt(x) == IF x = NoneText THEN NoneRepr ELSE x

\* lines 148-149
RECURSIVE SampleLines(_)
SampleLines(samples) ==
    IF samples = <<>> THEN <<>>
    ELSE <<RptSamplePrefix \o Head(samples)>> \o SampleLines(Tail(samples))

\* lines 146-149
RECURSIVE FindingLines(_)
FindingLines(findings) ==
    IF findings = <<>> THEN <<>>
    ELSE LET data == Head(findings) IN
         <<RptCategoryPrefix \o data.category \o RptCountPrefix
             \o DecimalStr(data.count) \o RptCountSuffix>>
         \o SampleLines(data.samples)
         \o FindingLines(Tail(findings))

\* "\n".join(lines)
RECURSIVE JoinLines(_)
JoinLines(lines) ==
    IF lines = <<>> THEN <<>>
    ELSE IF Len(lines) = 1 THEN Head(lines)
    ELSE Head(lines) \o <<"\n">> \o JoinLines(Tail(lines))

\* lines 136-154: the report's lines; job_name is os.getenv('JOB_NAME')
ReportLines(job_name, build_info, findings, ai_text) ==
    << RptTitle,
       RptJobName \o Fmt(job_name),
       RptNumber \o DecimalStr(build_info.number),
       RptTime \o DecimalStr(build_info.timestamp),
       RptUrl \o build_info.url,
       RptBasicHeader >>
    \o (IF findings # <<>> THEN FindingLines(findings) ELSE <<RptNoPattern>>)
    \o <<RptAIHeader, ai_text>>

\* lines 134-156
generate_report(build_info, findings, ai_text) ==
    JoinLines(ReportLines(env["JOB_NAME"], build_info, findings, ai_text))

\* line 31
MsgRequestFailed ==
    <<"U+8BF7", "U+6C42", "U+5931", "U+8D25", ":", " ">>
\* line 64
MsgLogFailedPrefix ==
    <<"U+83B7", "U+53D6", "U+6784", "U+5EFA", " ", "#">>
\* line 64
MsgLogFailedSuffix ==
    <<" ", "U+65E5", "U+5FD7", "U+5931", "U+8D25", ":", " ">>
\* line 164
MsgFetchingList ==
    <<"U+6B63", "U+5728", "U+83B7", "U+53D6", "U+5931", "U+8D25", "U+6784", "U+5EFA", "U+5217", "U+8868", ".", ".", ".">>
\* line 167
MsgNoFailedBuilds ==
    <<"U+672A", "U+53D1", "U+73B0", "U+5931", "U+8D25", "U+7684", "U+6784", "U+5EFA">>
\* line 172
MsgAnalyzingPrefix ==
    <<"\n", "U+6B63", "U+5728", "U+5206", "U+6790", "U+6784", "U+5EFA", " ", "#">>
\* line 172
MsgAnalyzingSuffix ==
    <<".", ".", ".">>
\* line 177
MsgNoLog ==
    <<"U+65E0", "U+6CD5", "U+83B7", "U+53D6", "U+6784", "U+5EFA", "U+65E5", "U+5FD7">>

(***************************************************************************)
(* The environment: settings, the Jenkins server, the AI provider.         *)
(* Responses are well formed: a successful answer holds the fields the     *)
(* code reads.                                                             *)
(***************************************************************************)
\* bounds of the model
MaxBuilds == 2
MaxChunks == 2
LogSlack == 20

\* line 39: limit=5
DefaultLimit == 5

BuildNumbers == 10..(9 + MaxBuilds)
Limits == (0 - 1)..(MaxBuilds + 1)

\* os.getenv(name) for every name: the value, or None when it is unset
Environments ==
    {[n \in EnvNames |-> IF n \in S THEN EnvValue(n) ELSE NoneText] :
       S \in SUBSET EnvNames}
FullEnv == [n \in EnvNames |-> EnvValue(n)]

\* str(e) of the RequestException a failed request raises
ErrorText ==
    <<"5", "0", "3", " ", "S", "e", "r", "v", "e", "r", " ", "E", "r", "r", "o", "r">>
RequestError == [ok |-> FALSE, error |-> ErrorText]

\* the job listings: the builds in any order, no number twice
Listings ==
    UNION {InjectiveSeqs(BuildNumbers, k) : k \in 0..MaxBuilds}
\* those a Jenkins server sends: the most recent build first
RecentFirst ==
    {l \in Listings : \A a, b \in DOMAIN l : a < b => l[a] > l[b]}
JobResponses(listings) ==
    {RequestError} \cup
    {[ok |-> TRUE,
      json |-> [builds |-> [k \in 1..Len(l) |-> [number |-> l[k]]]]] :
        l \in listings}

Results == {"FAILURE", "SUCCESS"}
ServerUrl(n) == <<"/", "j", "o", "b", "/">> \o DecimalStr(n) \o <<"/">>
ServerTimestamp(n) == n * 1000
BuildResponses(n) ==
    {RequestError} \cup
    {[ok |-> TRUE,
      json |-> [result |-> r, url |-> ServerUrl(n),
                timestamp |-> ServerTimestamp(n)]] : r \in Results}

\* the numbers a job answer lists
Listed(jobResp) ==
    IF jobResp.ok THEN {jobResp.json.builds[k].number :
                          k \in DOMAIN jobResp.json.builds}
    ELSE {}

\* console texts
TextPermission3 ==
    <<"P", "e", "r", "m", "i", "s", "s", "i", "o", "n", " ", "d", "e", "n", "i", "e", "d", "\n", "P", "e", "r", "m", "i", "s", "s", "i", "o", "n", " ", "d", "e", "n", "i", "e", "d", "\n", "P", "e", "r", "m", "i", "s", "s", "i", "o", "n", " ", "d", "e", "n", "i", "e", "d">>
TextTwoCategories ==
    <<"e", "r", "r", "o", "r", ":", " ", "c", "a", "n", "n", "o", "t", " ", "f", "i", "n", "d", " ", "s", "y", "m", "b", "o", "l", "\n", "C", "o", "n", "n", "e", "c", "t", "i", "o", "n", " ", "r", "e", "f", "u", "s", "e", "d">>
LogTexts == {<<>>, TextPermission3, TextTwoCategories}
LogResponses == {RequestError} \cup {[ok |-> TRUE, text |-> t] : t \in LogTexts}

\* what the chat-completion call can do
CompletionText ==
    <<"F", "i", "x", " ", "t", "h", "e", " ", "i", "m", "p", "o", "r", "t", ".">>
ProviderErrorText ==
    <<"C", "o", "n", "n", "e", "c", "t", "i", "o", "n", " ", "e", "r", "r", "o", "r", ".">>
AIOutcomes ==
    { [kind |-> "completion", text |-> CompletionText],
      [kind |-> "exception",  text |-> ProviderErrorText],
      [kind |-> "no_choices", text |-> <<>>] }

\* console texts around the cap: n filler characters, then a tail
Filler(n) == [k \in 1..n |-> IF k % 2 = 0 THEN "-" ELSE "+"]
TailDenied ==
    <<"P", "e", "r", "m", "i", "s", "s", "i", "o", "n", " ", "d", "e", "n", "i", "e", "d">>
TailRefused ==
    <<"\n", "C", "o", "n", "n", "e", "c", "t", "i", "o", "n", " ", "r", "e", "f", "u", "s", "e", "d", "\n">>
LogTails == {<<>>, TailDenied, TailRefused}
LongTexts ==
    {Filler(n) \o t :
       n \in (max_log_size - LogSlack)..(max_log_size + LogSlack),
       t \in LogTails}
LongResponses ==
    {RequestError} \cup {[ok |-> TRUE, text |-> t] : t \in LongTexts \cup LogTexts}

\* pieces of console text for basic_analysis
ChunkDenied3 ==
    <<"P", "e", "r", "m", "i", "s", "s", "i", "o", "n", " ", "d", "e", "n", "i", "e", "d", "\n", "P", "e", "r", "m", "i", "s", "s", "i", "o", "n", " ", "d", "e", "n", "i", "e", "d", "\n", "P", "e", "r", "m", "i", "s", "s", "i", "o", "n", " ", "d", "e", "n", "i", "e", "d", "\n">>
ChunkDeniedUpper ==
    <<"P", "E", "R", "M", "I", "S", "S", "I", "O", "N", " ", "D", "E", "N", "I", "E", "D">>
ChunkErrors4 ==
    <<"e", "r", "r", "o", "r", ":", " ", "a", "\n", "e", "r", "r", "o", "r", ":", " ", "b", "\n", "E", "r", "r", "o", "r", ":", " ", "c", "\n", "E", "R", "R", "O", "R", ":", " ", "A">>
ChunkTwoCategories ==
    <<"e", "r", "r", "o", "r", ":", " ", "c", "a", "n", "n", "o", "t", " ", "f", "i", "n", "d", " ", "s", "y", "m", "b", "o", "l", "\n", "C", "o", "n", "n", "e", "c", "t", "i", "o", "n", " ", "r", "e", "f", "u", "s", "e", "d", "\n">>
ChunkTestsTimeout ==
    <<"F", "A", "I", "L", "E", "D", " ", "1", "2", " ", "t", "e", "s", "t", "s", " ", "F", "A", "I", "L", "E", "D", " ", "1", " ", "t", "e", "s", "t", "\n", "T", "i", "m", "e", "o", "u", "t", " ", "5", "s", " ", "e", "x", "c", "e", "e", "d", "e", "d", " ", "e", "x", "c", "e", "e", "d", "e", "d", "!">>
\* digits of other scripts: Arabic-Indic, fullwidth, and mixed with ASCII
ChunkTestsOtherDigits ==
    <<"F", "A", "I", "L", "E", "D", " ", "U+0661", "U+0662", " ", "t", "e",
      "s", "t", "s", "\n", "F", "A", "I", "L", "E", "D", " ", "U+FF11",
      "U+FF12", " ", "t", "e", "s", "t", "s", " ", "a", "n", "d", " ", "F",
      "A", "I", "L", "E", "D", " ", "3", "U+0663", " ", "t", "e", "s", "t",
      "\n">>
ChunkCases ==
    <<"U+6D4B", "U+8BD5", "U+7528", "U+4F8B", "1", "U+5931", "U+8D25", "2", "U+5931", "U+8D25", "3">>
ChunkSucceeded ==
    <<"b", "u", "i", "l", "d", " ", "s", "u", "c", "c", "e", "e", "d", "e", "d", "\n">>
Chunks ==
    {ChunkDenied3,
     ChunkDeniedUpper,
     ChunkErrors4,
     ChunkTwoCategories,
     ChunkTestsTimeout,
     ChunkTestsOtherDigits,
     ChunkCases,
     ChunkSucceeded}

RECURSIVE Concat(_)
Concat(ss) == IF ss = <<>> THEN <<>> ELSE Head(ss) \o Concat(Tail(ss))
ChunkTexts ==
    {Concat(cs) : cs \in UNION {[1..k -> Chunks] : k \in 0..MaxChunks}}

(***************************************************************************)
(* main(), lines 158-186, one action per step                              *)
(***************************************************************************)
Call(op, number, text) == [op |-> op, number |-> number, text |-> text]

Init ==
    /\ env \in Environments
    /\ pc = "start"
    /\ limit = 0
    /\ job_resp = RequestError
    /\ build_resp = <<>>
    /\ failed_builds = <<>>
    /\ idx = 1
    /\ response = RequestError
    /\ log = NoneText
    /\ basic_findings = <<>>
    /\ ai_analysis = NoneText
    /\ stdout = <<>>
    /\ calls = <<>>

\* line 160: JenkinsLogAnalyzer()
InitJenkins ==
    /\ pc = "start"
    /\ pc' = IF JenkinsInitRaises(env) THEN "aborted" ELSE "jenkins_ready"
    /\ UNCHANGED <<env, limit, job_resp, build_resp, failed_builds, idx,
                   response, log, basic_findings, ai_analysis, stdout, calls>>

\* line 161: DeepSeekAIAnalyzer()
InitAI ==
    /\ pc = "jenkins_ready"
    /\ pc' = IF AIInitRaises(env) THEN "aborted" ELSE "ai_ready"
    /\ UNCHANGED <<env, limit, job_resp, build_resp, failed_builds, idx,
                   response, log, basic_findings, ai_analysis, stdout, calls>>

\* what fetch_json prints (line 31) for the job request and the candidates'
RECURSIVE BuildPrints(_, _)
BuildPrints(cands, buildResp) ==
    IF cands = <<>> THEN <<>>
    ELSE (IF buildResp[Head(cands).number].ok THEN <<>>
          ELSE <<MsgRequestFailed \o buildResp[Head(cands).number].error>>)
         \o BuildPrints(Tail(cands), buildResp)

ListingPrints(jobResp, buildResp, n) ==
    IF jobResp.ok THEN BuildPrints(Candidates(jobResp, n), buildResp)
    ELSE <<MsgRequestFailed \o jobResp.error>>

\* the requests get_failed_builds issues: the job's, then one per candidate
ListingCalls(jobResp, n) ==
    <<Call("job", 0, <<>>)>> \o
    [k \in 1..Len(Candidates(jobResp, n)) |->
        Call("build", Candidates(jobResp, n)[k].number, <<>>)]

\* a call get_failed_builds(n), lines 39-54, against any server
CallGetFailedBuilds(n, listings, before) ==
    \E jr \in JobResponses(listings) :
      \E br \in [Listed(jr) -> UNION {BuildResponses(b) : b \in BuildNumbers}] :
        /\ \A b \in Listed(jr) : br[b] \in BuildResponses(b)
        /\ limit' = n
        /\ job_resp' = jr
        /\ build_resp' = br
        /\ failed_builds' = get_failed_builds(jr, br, n)
        /\ stdout' = stdout \o before \o ListingPrints(jr, br, n)
        /\ calls' = calls \o ListingCalls(jr, n)

\* lines 164-165
ListFailedBuilds ==
    /\ pc = "ai_ready"
    /\ CallGetFailedBuilds(DefaultLimit, RecentFirst, <<MsgFetchingList>>)
    /\ pc' = "listed"
    /\ idx' = 1
    /\ UNCHANGED <<env, response, log, basic_findings, ai_analysis>>

\* a faulty variant of lines 166-168: main returns without a word
NoFailedBuilds_Silent ==
    /\ pc = "listed"
    /\ failed_builds = <<>>
    /\ pc' = "done"
    /\ UNCHANGED <<env, limit, job_resp, build_resp, failed_builds, idx,
                   response, log, basic_findings, ai_analysis, stdout, calls>>

\* lines 166-168
NoFailedBuilds ==
    /\ pc = "listed"
    /\ failed_builds = <<>>
    /\ stdout' = Append(stdout, MsgNoFailedBuilds)
    /\ pc' = "done"
    /\ UNCHANGED <<env, limit, job_resp, build_resp, failed_builds, idx,
                   response, log, basic_findings, ai_analysis, calls>>

\* line 171 entered with builds to analyse
EnterLoop ==
    /\ pc = "listed"
    /\ failed_builds # <<>>
    /\ pc' = "loop"
    /\ UNCHANGED <<env, limit, job_resp, build_resp, failed_builds, idx,
                   response, log, basic_findings, ai_analysis, stdout, calls>>

\* lines 171-175: the next build, and its console text requested
FetchLog ==
    /\ pc = "loop"
    /\ idx <= Len(failed_builds)
    /\ \E resp \in LogResponses :
         LET number == failed_builds[idx].number IN
         /\ response' = resp
         /\ log' = get_log(resp)
         /\ calls' = calls \o
              <<Call("console", number, <<>>),
                IF resp.ok THEN Call("console_ok", number, resp.text)
                ELSE Call("console_error", number, resp.error)>>
         /\ stdout' = stdout
              \o <<MsgAnalyzingPrefix \o DecimalStr(number) \o MsgAnalyzingSuffix>>
              \o (IF resp.ok THEN <<>>
                  ELSE <<MsgLogFailedPrefix \o DecimalStr(number)
                           \o MsgLogFailedSuffix \o resp.error>>)
    /\ pc' = "fetched"
    /\ UNCHANGED <<env, limit, job_resp, build_resp, failed_builds, idx,
                   basic_findings, ai_analysis>>

\* a faulty variant of lines 176-178: no log ends the run
SkipBuild_Abort ==
    /\ pc = "fetched"
    /\ ~Truthy(log)
    /\ pc' = "aborted"
    /\ UNCHANGED <<env, limit, job_resp, build_resp, failed_builds, idx,
                   response, log, basic_findings, ai_analysis, stdout, calls>>

\* lines 176-178: no log, the build is skipped
SkipBuild ==
    /\ pc = "fetched"
    /\ ~Truthy(log)
    /\ stdout' = Append(stdout, MsgNoLog)
    /\ idx' = idx + 1
    /\ pc' = "loop"
    /\ UNCHANGED <<env, limit, job_resp, build_resp, failed_builds,
                   response, log, basic_findings, ai_analysis, calls>>

\* line 181
Classify ==
    /\ pc = "fetched"
    /\ Truthy(log)
    /\ \E f \in basic_analysis(log) : basic_findings' = f
    /\ calls' = Append(calls, Call("classify", failed_builds[idx].number, log))
    /\ pc' = "classified"
    /\ UNCHANGED <<env, limit, job_resp, build_resp, failed_builds, idx,
                   response, log, ai_analysis, stdout>>

\* line 182
Analyze ==
    /\ pc = "classified"
    /\ \E outcome \in AIOutcomes :
         /\ ai_analysis' = analyze(log, outcome)
         /\ calls' = calls \o
              <<Call("chat", failed_builds[idx].number, log),
                Call(outcome.kind, failed_builds[idx].number, outcome.text)>>
    /\ pc' = "analyzed"
    /\ UNCHANGED <<env, limit, job_resp, build_resp, failed_builds, idx,
                   response, log, basic_findings, stdout>>

\* a faulty variant of lines 185-186: the report is headed by the first build
Report_FirstBuild ==
    /\ pc = "analyzed"
    /\ stdout' = Append(stdout, generate_report(failed_builds[1],
                                                basic_findings, ai_analysis))
    /\ calls' = Append(calls, Call("report", failed_builds[idx].number, <<>>))
    /\ idx' = idx + 1
    /\ pc' = "loop"
    /\ UNCHANGED <<env, limit, job_resp, build_resp, failed_builds,
                   response, log, basic_findings, ai_analysis>>

\* lines 185-186
Report ==
    /\ pc = "analyzed"
    /\ stdout' = Append(stdout, generate_report(failed_builds[idx],
                                                basic_findings, ai_analysis))
    /\ calls' = Append(calls, Call("report", failed_builds[idx].number, <<>>))
    /\ idx' = idx + 1
    /\ pc' = "loop"
    /\ UNCHANGED <<env, limit, job_resp, build_resp, failed_builds,
                   response, log, basic_findings, ai_analysis>>

\* line 171 with no build left: main returns
Finish ==
    /\ pc = "loop"
    /\ idx > Len(failed_builds)
    /\ pc' = "done"
    /\ UNCHANGED <<env, limit, job_resp, build_resp, failed_builds, idx,
                   response, log, basic_findings, ai_analysis, stdout, calls>>

Next ==
    \/ InitJenkins
    \/ InitAI
    \/ ListFailedBuilds
    \/ NoFailedBuilds
    \/ EnterLoop
    \/ FetchLog
    \/ SkipBuild
    \/ Classify
    \/ Analyze
    \/ Report
    \/ Finish

Spec == Init /\ [][Next]_vars

\* the classify step seen by its change of pc alone: basic_analysis returns
\* for every text, so the step can be taken whenever it is reached
Classified == pc = "fetched" /\ Truthy(log) /\ pc' = "classified"

\* main runs to its end: it is one thread, and every call it makes returns
FairSpec ==
    /\ Spec
    /\ WF_vars(InitJenkins) /\ WF_vars(InitAI)
    /\ WF_vars(ListFailedBuilds) /\ WF_vars(NoFailedBuilds)
    /\ WF_vars(EnterLoop) /\ WF_vars(FetchLog) /\ WF_vars(SkipBuild)
    /\ WF_pc(Classified) /\ WF_vars(Analyze) /\ WF_vars(Report)
    /\ WF_vars(Finish)

(***************************************************************************)
(* The functions called on their own, on bounded inputs                    *)
(***************************************************************************)
Idle ==
    /\ env = FullEnv
    /\ pc = "call"
    /\ limit = 0
    /\ job_resp = RequestError
    /\ build_resp = <<>>
    /\ failed_builds = <<>>
    /\ idx = 1
    /\ basic_findings = <<>>
    /\ ai_analysis = NoneText
    /\ stdout = <<>>
    /\ calls = <<>>

\* get_failed_builds(n) for any limit n, against any listing
InitList == Idle /\ response = RequestError /\ log = NoneText
ListCall ==
    /\ pc = "call"
    /\ \E n \in Limits : CallGetFailedBuilds(n, Listings, <<>>)
    /\ pc' = "returned"
    /\ UNCHANGED <<env, idx, response, log, basic_findings, ai_analysis>>
NextList == ListCall
SpecList == InitList /\ [][NextList]_vars

\* get_log on console texts around the cap
InitLog == Idle /\ response \in LongResponses /\ log = NoneText
LogCall ==
    /\ pc = "call"
    /\ \E number \in BuildNumbers :
         /\ log' = get_log(response)
         /\ calls' = calls \o
              <<Call("console", number, <<>>),
                IF response.ok THEN Call("console_ok", number, response.text)
                ELSE Call("console_error", number, response.error)>>
         /\ stdout' = stdout
              \o (IF response.ok THEN <<>>
                  ELSE <<MsgLogFailedPrefix \o DecimalStr(number)
                           \o MsgLogFailedSuffix \o response.error>>)
    /\ pc' = "returned"
    /\ UNCHANGED <<env, limit, job_resp, build_resp, failed_builds, idx,
                   response, basic_findings, ai_analysis>>
NextLog == LogCall
SpecLog == InitLog /\ [][NextLog]_vars

\* basic_analysis on texts made of the pieces
InitClassify == Idle /\ response = RequestError /\ log \in ChunkTexts
ClassifyCall ==
    /\ pc = "call"
    /\ \E f \in basic_analysis(log) : basic_findings' = f
    /\ pc' = "returned"
    /\ UNCHANGED <<env, limit, job_resp, build_resp, failed_builds, idx,
                   response, log, ai_analysis, stdout, calls>>
NextClassify == ClassifyCall
SpecClassify == InitClassify /\ [][NextClassify]_vars

(***************************************************************************)
(* Properties                                                              *)
(***************************************************************************)
Last(q) == q[Len(q)]
StartsWith(q, t) == Len(q) >= Len(t) /\ SubSeq(q, 1, Len(t)) = t
EndsWith(q, t) == Len(q) >= Len(t) /\ SubSeq(q, Len(q) - Len(t) + 1, Len(q)) = t
Numbers(builds) == [k \in DOMAIN builds |-> builds[k].number]

\* the listing the server sent, as build numbers
Listing == IF job_resp.ok THEN Numbers(job_resp.json.builds) ELSE <<>>
\* how many listed builds builds[:limit] holds
PrefixLen ==
    IF limit >= 0 THEN Min({limit, Len(Listing)})
    ELSE Max({Len(Listing) + limit, 0})
\* the server reports build b as failed
ReportsFailure(b) == build_resp[b].ok /\ build_resp[b].json.result = "FAILURE"
AllFetched == job_resp.ok /\ \A b \in Listed(job_resp) : build_resp[b].ok

\* C1 as stated: for every listing and every limit n >= 0, with every request
\* answered, get_failed_builds(n) returns the FAILURE builds of the listing,
\* in listing order, cut to the first n of them.
C1_FirstNFailures ==
    (pc = "returned" /\ AllFetched /\ limit >= 0) =>
        Numbers(failed_builds) =
            LET failures == SelectSeq(Listing, ReportsFailure)
            IN  SubSeq(failures, 1, Min({limit, Len(failures)}))

\* C1 amended: get_failed_builds(n) returns exactly the builds among the
\* first n listed (builds[:n]) whose detail fetch reported FAILURE, in
\* listing order, each with the url and timestamp of its detail.
C1_FailuresAmongFirstN ==
    (pc = "returned" /\ job_resp.ok) =>
        /\ Numbers(failed_builds) =
               SelectSeq(SubSeq(Listing, 1, PrefixLen), ReportsFailure)
        /\ \A k \in DOMAIN failed_builds :
               LET b == failed_builds[k].number IN
               /\ failed_builds[k].url = build_resp[b].json.url
               /\ failed_builds[k].timestamp = build_resp[b].json.timestamp

\* a listing of two builds, a FAILURE after a build that did not fail, and a
\* limit of 1: the failed build is beyond the limit and is not returned
C1_Witness ==
    /\ pc = "returned" /\ AllFetched
    /\ limit = 1 /\ Len(Listing) = 2
    /\ ~ReportsFailure(Listing[1]) /\ ReportsFailure(Listing[2])
    /\ failed_builds = <<>>

\* C3: when the detail fetch of a candidate fails, get_failed_builds returns
\* all the same: that candidate is left out and every candidate that
\* reported FAILURE, before or after it, is returned.
C3_FetchFailureSkipsOnlyThatBuild ==
    (pc = "returned" /\ job_resp.ok) =>
        \A k \in 1..PrefixLen :
            /\ ~build_resp[Listing[k]].ok =>
                   Listing[k] \notin Range(Numbers(failed_builds))
            /\ ReportsFailure(Listing[k]) =>
                   Listing[k] \in Range(Numbers(failed_builds))

\* the first candidate's fetch failed and the second, a FAILURE, is returned
C3_Witness ==
    /\ pc = "returned" /\ job_resp.ok /\ PrefixLen >= 2
    /\ ~build_resp[Listing[1]].ok
    /\ ReportsFailure(Listing[2])
    /\ Numbers(failed_builds) = <<Listing[2]>>

Missing == {n \in EnvNames : env[n] = NoneText}
ConsoleIdx == {j \in DOMAIN calls : calls[j].op = "console"}
Count(op) == Cardinality({j \in DOMAIN calls : calls[j].op = op})

\* the builds whose console text was requested are the failed builds, in order
AllAttempted ==
    Numbers(SelectSeq(calls, LAMBDA c : c.op = "console")) = Numbers(failed_builds)

\* C2: once both analyzers are constructed, whatever requests fail, main
\* goes on to request the console text of every failed build the
\* enumeration returned and then returns normally.
C2_RunCompletes ==
    (pc = "ai_ready") ~> (pc = "done" /\ AllAttempted)

\* main returned after two failed builds: the log fetch of the first failed,
\* the AI call for the second raised
C2_Witness ==
    /\ pc = "done" /\ Len(failed_builds) = 2 /\ AllAttempted
    /\ \E j \in DOMAIN calls :
         calls[j].op = "console_error" /\ calls[j].number = failed_builds[1].number
    /\ \E j \in DOMAIN calls :
         calls[j].op = "exception" /\ calls[j].number = failed_builds[2].number

\* C4 as stated: with any of the five settings missing the run ends in a
\* startup error before the job listing is requested.
C4_MissingSettingAborts ==
    Missing # {} => (calls = <<>> /\ pc \in {"start", "jenkins_ready", "aborted"})

\* C5: when the job request fails, get_failed_builds returns the empty list
\* without a per-build request, and main prints that no failed build was
\* found and returns, no log fetched and no AI call made.
C5_ListingFailureEndsRun ==
    (calls # <<>> /\ ~job_resp.ok) =>
        /\ failed_builds = <<>>
        /\ calls = <<Call("job", 0, <<>>)>>
        /\ pc \in {"listed", "done"}
        /\ pc = "done" =>
             stdout = <<MsgFetchingList, MsgRequestFailed \o job_resp.error,
                        MsgNoFailedBuilds>>

C5_Witness == calls # <<>> /\ ~job_resp.ok /\ pc = "done"

\* C6: a successful get_log returns at most max_log_size = 5000 characters,
\* a prefix of the server's text: a text of at most 5000 characters comes
\* back whole, one of 5001 loses exactly its last character.
C6_LogIsCappedPrefix ==
    (pc = "returned" /\ response.ok) =>
        /\ max_log_size = 5000
        /\ Len(log) <= max_log_size
        /\ Len(log) <= Len(response.text)
        /\ \A k \in 1..Len(log) : log[k] = response.text[k]
        /\ Len(response.text) <= max_log_size => log = response.text
        /\ Len(response.text) = max_log_size + 1 =>
               log = SubSeq(response.text, 1, Len(response.text) - 1)

\* a text of 5001 characters came back as its first 5000, the tail cut
C6_Witness ==
    /\ pc = "returned" /\ response.ok
    /\ Len(response.text) = max_log_size + 1
    /\ Len(log) = max_log_size
    /\ Last(response.text) # Last(log)

\* the pattern matches somewhere in the text (re.search)
HasMatch(pattern, text) ==
    \E p \in 1..Len(text) : MatchAt(pattern, text, p) # NoMatch
Entries(category) ==
    {k \in DOMAIN basic_findings : basic_findings[k].category = category}

\* C7: in the mapping basic_analysis returns, a category is present (once)
\* exactly when its pattern matches somewhere; its count is the number of
\* matches, at least 1; its samples are pairwise different matched strings,
\* min(3, number of different matched strings) of them.
C7_FindingsMatchThePatterns ==
    pc = "returned" =>
        /\ \A k \in DOMAIN basic_findings :
             \E c \in DOMAIN error_patterns :
               basic_findings[k].category = error_patterns[c].category
        /\ \A c \in DOMAIN error_patterns :
             LET pattern == error_patterns[c].pattern
                 present == Entries(error_patterns[c].category)
                 found == FindAll(pattern, log)
                 matched == Range(found)
             IN  /\ Cardinality(present) = IF HasMatch(pattern, log) THEN 1 ELSE 0
                 /\ \A k \in present :
                      LET samples == basic_findings[k].samples IN
                      /\ basic_findings[k].count = Len(found)
                      /\ basic_findings[k].count >= 1
                      /\ Len(samples) = Min({3, Cardinality(matched)})
                      /\ Range(samples) \subseteq matched
                      /\ \A a, b \in DOMAIN samples : a # b => samples[a] # samples[b]

\* two categories at once, one of them with more matches than samples
C7_Witness ==
    /\ pc = "returned"
    /\ Len(basic_findings) >= 2
    /\ \E k \in DOMAIN basic_findings :
         /\ basic_findings[k].count > Len(basic_findings[k].samples)
         /\ Len(basic_findings[k].samples) = 3
    /\ \E k \in DOMAIN basic_findings :
         basic_findings[k].count = 3 /\ Len(basic_findings[k].samples) = 1

FailOps == {"exception", "no_choices"}
\* str(e) of the exception a failed provider call ends in
Description(c) == IF c.op = "exception" THEN c.text ELSE IndexErrorText

\* C8: when the provider call fails, analyze returns the failure marker
\* followed by the error's description, main goes on, and the report printed
\* for that build ends with that text.
C8_FailedCallBecomesVerdict ==
    /\ \A j \in DOMAIN calls :
         (calls[j].op \in FailOps /\ j = Len(calls)) =>
             /\ pc = "analyzed"
             /\ ai_analysis = AIFailMarker \o Description(calls[j])
    /\ \A j \in DOMAIN calls :
         (calls[j].op \in FailOps /\ j < Len(calls)) =>
             /\ calls[j + 1].op = "report"
             /\ calls[j + 1].number = calls[j].number
             /\ j + 1 = Len(calls) =>
                  EndsWith(Last(stdout),
                           RptAIHeader \o <<"\n">> \o AIFailMarker
                             \o Description(calls[j]))

\* the call raised and the report of that build is the last thing printed
C8_Witness ==
    /\ Len(calls) >= 2
    /\ Last(calls).op = "report"
    /\ calls[Len(calls) - 1].op = "exception"
    /\ EndsWith(Last(stdout), AIFailMarker \o ProviderErrorText)

\* the place of a call in the work on one build, 0 for the enumeration's
StageOf(op) ==
    CASE op = "console" -> 1
      [] op \in {"console_ok", "console_error"} -> 2
      [] op = "classify" -> 3
      [] op = "chat" -> 4
      [] op \in {"completion", "exception", "no_choices"} -> 5
      [] op = "report" -> 6
      [] OTHER -> 0
\* the console request that opened the work call j belongs to
SegStart(j) == Max({k \in ConsoleIdx : k <= j})
\* the last call of the work the console request s opened
SegEnd(s) == Min({k \in ConsoleIdx : k > s} \cup {Len(calls) + 1}) - 1
\* which failed build, by position, the console request s is for
Rank(s) == Cardinality({k \in ConsoleIdx : k <= s})
\* the work the console request s opened is over
SegOver(s) == SegEnd(s) < Len(calls) \/ pc \in {"loop", "done"}

\* C9: the failed builds are worked on one at a time in the order of the
\* enumeration; the work on a build is fetch, classify, analyze, report, in
\* that order, each at most once and all four unless the build is skipped
\* after the fetch; classify and analyze get the same capped excerpt; and a
\* report is made of its own build's summary, findings and verdict.
C9_LinearPipelinePerBuild ==
    /\ \A j \in DOMAIN calls :
         StageOf(calls[j].op) > 0 =>
             /\ ConsoleIdx # {} /\ Min(ConsoleIdx) <= j
             /\ StageOf(calls[j].op) = j - SegStart(j) + 1
             /\ Rank(SegStart(j)) <= Len(failed_builds)
             /\ calls[j].number = failed_builds[Rank(SegStart(j))].number
    /\ \A s \in ConsoleIdx :
         SegOver(s) => SegEnd(s) - s + 1 \in {2, 6}
    /\ \A j \in DOMAIN calls :
         calls[j].op = "chat" =>
             /\ calls[j].text = calls[j - 1].text
             /\ calls[j].text = get_log([ok |-> TRUE, text |-> calls[j - 2].text])
    /\ (calls # <<>> /\ Last(calls).op = "report") =>
         LET n == Len(calls)
             s == SegStart(n)
         IN  /\ basic_findings \in basic_analysis(calls[s + 2].text)
             /\ ai_analysis =
                  analyze(calls[s + 3].text,
                          [kind |-> calls[s + 4].op, text |-> calls[s + 4].text])
             /\ Last(stdout) =
                  JoinLines(ReportLines(env["JOB_NAME"], failed_builds[Rank(s)],
                                        basic_findings, ai_analysis))

\* two builds reported, with different logs and different verdicts
C9_Witness ==
    /\ pc = "done" /\ Count("report") = 2
    /\ \E a, b \in DOMAIN calls :
         /\ a < b
         /\ calls[a].op = "classify" /\ calls[b].op = "classify"
         /\ calls[a].text # calls[b].text
    /\ Count("completion") = 1

\* the console text of the work the console request s opened was non-empty
GotText(s) == calls[s + 1].op = "console_ok" /\ calls[s + 1].text # <<>>
Reports == {k \in DOMAIN stdout : StartsWith(stdout[k], RptTitle)}

\* C10: a build is reported exactly when its log fetch succeeded with a
\* non-empty text; an empty log skips the build like a failed fetch, without
\* classify or AI call; and between builds the AI calls made are as many as
\* the reports printed.
C10_ReportIffNonEmptyLog ==
    /\ \A s \in ConsoleIdx :
         /\ SegEnd(s) > s
         /\ SegOver(s) => (SegEnd(s) - s + 1 = IF GotText(s) THEN 6 ELSE 2)
         /\ SegEnd(s) - s + 1 > 2 => GotText(s)
    /\ pc \in {"loop", "done"} =>
         /\ Count("chat") = Count("report")
         /\ Count("report") = Cardinality(Reports)

\* main returned: one build was skipped on an empty log, the other reported
C10_Witness ==
    /\ pc = "done"
    /\ \E s \in ConsoleIdx :
         calls[s + 1].op = "console_ok" /\ calls[s + 1].text = <<>> /\ SegEnd(s) = s + 1
    /\ Count("chat") = 1 /\ Cardinality(Reports) = 1

=============================================================================
